---- MODULE Spec2Model ----
(***************************************************************************)
(* Model of linux/my_application.cc: the application constructor           *)
(* my_application_new and the GApplication::activate handler               *)
(* my_application_activate, one action per statement of the handler.       *)
(* Toolkit objects (application, window, header bar, Dart project) are     *)
(* records held in sequences; a reference to an object is its index, and 0 *)
(* is the null reference.                                                  *)
(***************************************************************************)
EXTENDS Integers, Sequences, FiniteSets, TLC

\* ---------------------------------------------------------------- bounds
MaxApps == 2
MaxActivations == 2

\* ------------------------------------------------------------- constants
\* The build system supplies APPLICATION_ID and APPLICATION_NAME; the file
\* does not fix their values, so a build picks one of each.
ApplicationIds == {"com.example.fruit_ninja", "com.example.FruitNinja"}
ApplicationNames == {"FruitNinja", "fruit_ninja"}

G_APPLICATION_HANDLES_OPEN == {"HANDLES_OPEN"}

WindowTitle == "FruitNinja"
DefaultWidth == 1280
DefaultHeight == 720

\* Values of attributes no call has set yet.
NoTitle == "<unset>"
UnsetSize == -1

VARIABLES
    config,      \* [APPLICATION_ID, APPLICATION_NAME] of this build
    apps,        \* MyApplication instances: [id, flags]
    acts,        \* activations: [app, returned]
    windows,     \* GtkWindow: [app, act, title, width, height, titlebar, visible]
    headers,     \* GtkHeaderBar: [act, visible, title, show_title_buttons, parent]
    projects,    \* FlDartProject: [act, refs, view]
    pc,          \* 0 outside the handler, else index of the next statement
    self,        \* handler local: the application
    window,      \* handler local
    header_bar,  \* handler local
    project      \* handler local (g_autoptr)

vars == <<config, apps, acts, windows, headers, projects,
          pc, self, window, header_bar, project>>

locals == <<self, window, header_bar, project>>

\* --------------------------------------------------------------- helpers
APPLICATION_ID == config.APPLICATION_ID
APPLICATION_NAME == config.APPLICATION_NAME

\* The statements of my_application_activate after line 9, in source order.
Body_titlebar_first ==
    << "gtk_application_window_new", "gtk_header_bar_new",
       "gtk_window_set_titlebar", "gtk_widget_show(header_bar)",
       "gtk_header_bar_set_title", "gtk_header_bar_set_show_title_buttons",
       "gtk_window_set_title", "gtk_window_set_default_size",
       "gtk_widget_show(window)", "fl_dart_project_new", "scope_exit" >>

Body ==
    << "gtk_application_window_new", "gtk_header_bar_new",
       "gtk_widget_show(header_bar)", "gtk_header_bar_set_title",
       "gtk_header_bar_set_show_title_buttons", "gtk_window_set_titlebar",
       "gtk_window_set_title", "gtk_window_set_default_size",
       "gtk_widget_show(window)", "fl_dart_project_new", "scope_exit" >>

At(stmt) == pc # 0 /\ Body[pc] = stmt

\* gtk_widget_show on any widget record.
gtk_widget_show(widget) == [widget EXCEPT !.visible = TRUE]

\* ------------------------------------------------------ my_application_new
my_application_new_no_flags ==
    /\ pc = 0
    /\ Len(apps) < MaxApps
    /\ apps' = Append(apps, [id |-> APPLICATION_ID,
                             flags |-> {}])
    /\ UNCHANGED <<config, acts, windows, headers, projects, pc, locals>>

my_application_new ==
    /\ pc = 0
    /\ Len(apps) < MaxApps
    /\ apps' = Append(apps, [id |-> APPLICATION_ID,
                             flags |-> G_APPLICATION_HANDLES_OPEN])
    /\ UNCHANGED <<config, acts, windows, headers, projects, pc, locals>>

\* ------------------------------------------------- my_application_activate
\* The "activate" signal reaches an application; the handler is entered and
\* line 9 binds self.  The handler runs to completion before another event.
my_application_activate ==
    /\ pc = 0
    /\ Len(acts) < MaxActivations
    /\ \E application \in 1..Len(apps) :
          /\ self' = application
          /\ acts' = Append(acts, [app |-> application, returned |-> FALSE])
    /\ pc' = 1
    /\ UNCHANGED <<config, apps, windows, headers, projects,
                   window, header_bar, project>>

\* line 10
gtk_application_window_new_reuse ==
    /\ At("gtk_application_window_new")
    /\ IF \E w \in 1..Len(windows) : windows[w].app = self
         THEN /\ window' = CHOOSE w \in 1..Len(windows) : windows[w].app = self
              /\ windows' = [windows EXCEPT ![window'].act = Len(acts)]
         ELSE /\ windows' = Append(windows,
                    [app |-> self, act |-> Len(acts), title |-> NoTitle,
                     width |-> UnsetSize, height |-> UnsetSize,
                     titlebar |-> 0, visible |-> FALSE])
              /\ window' = Len(windows')
    /\ pc' = pc + 1
    /\ UNCHANGED <<config, apps, acts, headers, projects,
                   self, header_bar, project>>

gtk_application_window_new ==
    /\ At("gtk_application_window_new")
    /\ windows' = Append(windows,
          [app |-> self, act |-> Len(acts), title |-> NoTitle,
           width |-> UnsetSize, height |-> UnsetSize,
           titlebar |-> 0, visible |-> FALSE])
    /\ window' = Len(windows')
    /\ pc' = pc + 1
    /\ UNCHANGED <<config, apps, acts, headers, projects,
                   self, header_bar, project>>

\* line 17.  Whether a fresh widget is visible and whether a fresh header
\* bar shows its buttons is the toolkit's default, which the file does not
\* rely on: either value may be found.
gtk_header_bar_new ==
    /\ At("gtk_header_bar_new")
    /\ \E vis \in BOOLEAN, btn \in BOOLEAN :
          headers' = Append(headers,
              [act |-> Len(acts), visible |-> vis, title |-> NoTitle,
               show_title_buttons |-> btn, parent |-> 0])
    /\ header_bar' = Len(headers')
    /\ pc' = pc + 1
    /\ UNCHANGED <<config, apps, acts, windows, projects,
                   self, window, project>>

\* line 18
gtk_widget_show_header_bar ==
    /\ At("gtk_widget_show(header_bar)")
    /\ headers' = [headers EXCEPT ![header_bar] = gtk_widget_show(@)]
    /\ pc' = pc + 1
    /\ UNCHANGED <<config, apps, acts, windows, projects, locals>>

\* line 19
gtk_header_bar_set_title ==
    /\ At("gtk_header_bar_set_title")
    /\ headers' = [headers EXCEPT ![header_bar].title = APPLICATION_NAME]
    /\ pc' = pc + 1
    /\ UNCHANGED <<config, apps, acts, windows, projects, locals>>

\* line 20
gtk_header_bar_set_show_title_buttons_false ==
    /\ At("gtk_header_bar_set_show_title_buttons")
    /\ headers' = [headers EXCEPT ![header_bar].show_title_buttons = FALSE]
    /\ pc' = pc + 1
    /\ UNCHANGED <<config, apps, acts, windows, projects, locals>>

gtk_header_bar_set_show_title_buttons ==
    /\ At("gtk_header_bar_set_show_title_buttons")
    /\ headers' = [headers EXCEPT ![header_bar].show_title_buttons = TRUE]
    /\ pc' = pc + 1
    /\ UNCHANGED <<config, apps, acts, windows, projects, locals>>

\* line 21: the window takes the header bar as its titlebar and becomes its
\* parent.
gtk_window_set_titlebar_first_only ==
    /\ At("gtk_window_set_titlebar")
    /\ IF window = 1
         THEN /\ windows' = [windows EXCEPT ![window].titlebar = header_bar]
              /\ headers' = [headers EXCEPT ![header_bar].parent = window]
         ELSE UNCHANGED <<windows, headers>>
    /\ pc' = pc + 1
    /\ UNCHANGED <<config, apps, acts, projects, locals>>

gtk_window_set_titlebar ==
    /\ At("gtk_window_set_titlebar")
    /\ windows' = [windows EXCEPT ![window].titlebar = header_bar]
    /\ headers' = [headers EXCEPT ![header_bar].parent = window]
    /\ pc' = pc + 1
    /\ UNCHANGED <<config, apps, acts, projects, locals>>

\* line 23
gtk_window_set_title_app_name ==
    /\ At("gtk_window_set_title")
    /\ windows' = [windows EXCEPT ![window].title = APPLICATION_NAME]
    /\ pc' = pc + 1
    /\ UNCHANGED <<config, apps, acts, headers, projects, locals>>

gtk_window_set_title ==
    /\ At("gtk_window_set_title")
    /\ windows' = [windows EXCEPT ![window].title = WindowTitle]
    /\ pc' = pc + 1
    /\ UNCHANGED <<config, apps, acts, headers, projects, locals>>

\* line 24
gtk_window_set_default_size_swapped ==
    /\ At("gtk_window_set_default_size")
    /\ windows' = [windows EXCEPT ![window].width = DefaultHeight,
                                  ![window].height = DefaultWidth]
    /\ pc' = pc + 1
    /\ UNCHANGED <<config, apps, acts, headers, projects, locals>>

gtk_window_set_default_size ==
    /\ At("gtk_window_set_default_size")
    /\ windows' = [windows EXCEPT ![window].width = DefaultWidth,
                                  ![window].height = DefaultHeight]
    /\ pc' = pc + 1
    /\ UNCHANGED <<config, apps, acts, headers, projects, locals>>

\* line 25
gtk_widget_show_window_skipped ==
    /\ At("gtk_widget_show(window)")
    /\ pc' = pc + 1
    /\ UNCHANGED <<config, apps, acts, windows, headers, projects, locals>>

gtk_widget_show_window ==
    /\ At("gtk_widget_show(window)")
    /\ windows' = [windows EXCEPT ![window] = gtk_widget_show(@)]
    /\ pc' = pc + 1
    /\ UNCHANGED <<config, apps, acts, headers, projects, locals>>

\* line 27: a new descriptor with one reference, held by the local; no view
\* is made from it, so it is embedded in no window (view = 0).
fl_dart_project_new ==
    /\ At("fl_dart_project_new")
    /\ projects' = Append(projects, [act |-> Len(acts), refs |-> 1, view |-> 0])
    /\ project' = Len(projects')
    /\ pc' = pc + 1
    /\ UNCHANGED <<config, apps, acts, windows, headers,
                   self, window, header_bar>>

\* line 28: the closing brace.  g_autoptr drops the local's reference, the
\* locals go out of scope, and the handler returns.
g_autoptr_cleanup_plain_pointer ==
    /\ At("scope_exit")
    /\ acts' = [acts EXCEPT ![Len(acts)].returned = TRUE]
    /\ pc' = 0
    /\ self' = 0 /\ window' = 0 /\ header_bar' = 0 /\ project' = 0
    /\ UNCHANGED <<config, apps, windows, headers, projects>>

g_autoptr_cleanup ==
    /\ At("scope_exit")
    /\ projects' = IF project = 0 THEN projects
                   ELSE [projects EXCEPT ![project].refs = @ - 1]
    /\ acts' = [acts EXCEPT ![Len(acts)].returned = TRUE]
    /\ pc' = 0
    /\ self' = 0 /\ window' = 0 /\ header_bar' = 0 /\ project' = 0
    /\ UNCHANGED <<config, apps, windows, headers>>

\* ----------------------------------------------------------- specification
Init ==
    /\ config \in [APPLICATION_ID : ApplicationIds,
                   APPLICATION_NAME : ApplicationNames]
    /\ apps = << >> /\ acts = << >>
    /\ windows = << >> /\ headers = << >> /\ projects = << >>
    /\ pc = 0
    /\ self = 0 /\ window = 0 /\ header_bar = 0 /\ project = 0

HandlerStep ==
    \/ gtk_application_window_new
    \/ gtk_header_bar_new
    \/ gtk_widget_show_header_bar
    \/ gtk_header_bar_set_title
    \/ gtk_header_bar_set_show_title_buttons
    \/ gtk_window_set_titlebar
    \/ gtk_window_set_title
    \/ gtk_window_set_default_size
    \/ gtk_widget_show_window
    \/ fl_dart_project_new
    \/ g_autoptr_cleanup

Next ==
    \/ my_application_new
    \/ my_application_activate
    \/ HandlerStep

Spec == Init /\ [][Next]_vars

\* The handler runs to completion on the main loop once entered.
FairSpec == Spec /\ WF_vars(HandlerStep)

\* ------------------------------------------------------------- properties
Returned == {a \in 1..Len(acts) : acts[a].returned}
WindowsOf(a) == {w \in 1..Len(windows) : windows[w].act = a}
HeadersOf(a) == {h \in 1..Len(headers) : headers[h].act = a}
ProjectsOf(a) == {p \in 1..Len(projects) : projects[p].act = a}
Visible == {w \in 1..Len(windows) : windows[w].visible}
Held == {p \in 1..Len(projects) : projects[p].refs > 0}

\* C1: every activation creates exactly one window, bound to the activated
\* application: the windows created number the returned activations (plus
\* the one of a handler that is past line 10), and each returned activation
\* has exactly one window, whose application is the one activated.
C1_OneWindowPerActivation ==
    /\ Len(windows) = Cardinality(Returned) + (IF window # 0 THEN 1 ELSE 0)
    /\ \A a \in Returned :
          /\ Cardinality(WindowsOf(a)) = 1
          /\ \A w \in WindowsOf(a) : windows[w].app = acts[a].app

C1_Witness ==
    /\ pc = 0
    /\ Cardinality(Returned) = 2
    /\ Len(windows) = 2
    /\ acts[1].app = acts[2].app

\* C2: when the handler has returned, the Dart project descriptor it
\* acquired is embedded in the window it created.
C2_ProjectEmbeddedInWindow ==
    \A a \in Returned :
        /\ ProjectsOf(a) # {}
        /\ \A p \in ProjectsOf(a) : projects[p].view \in WindowsOf(a)

\* C3: the window of every returned activation is visible, and a first
\* launch leads to exactly one visible top-level window.
C3_ShownBeforeReturn ==
    \A a \in Returned :
        /\ WindowsOf(a) # {}
        /\ \A w \in WindowsOf(a) : windows[w].visible

C3_ShownAndEventuallyOneVisible ==
    /\ []C3_ShownBeforeReturn
    /\ (Len(acts) = 1 /\ pc # 0) ~> (Cardinality(Visible) = 1)

C3_Witness ==
    /\ Len(acts) = 1
    /\ Returned = {1}
    /\ Cardinality(Visible) = 1

\* C4: every descriptor acquired by a returned activation has been
\* released, and outside the handler acquisitions equal releases.
C4_ProjectReleased ==
    /\ \A a \in Returned : \A p \in ProjectsOf(a) : projects[p].refs = 0
    /\ pc = 0 => Held = {}

C4_Witness ==
    /\ pc = 0
    /\ Len(projects) > 0
    /\ Held = {}

\* C5: the contract of one activation (a shown window titled "FruitNinja"
\* with a header-bar titlebar and default size 1280 x 720, and no descriptor
\* still held) holds after the first activation and still holds, for every
\* activation made so far, after a second one.
Contract(a) ==
    /\ \E w \in WindowsOf(a) :
          /\ windows[w].visible
          /\ windows[w].title = WindowTitle
          /\ windows[w].titlebar \in 1..Len(headers)
          /\ windows[w].width = DefaultWidth
          /\ windows[w].height = DefaultHeight
    /\ Held = {}

C5_SecondActivationKeepsContract ==
    pc = 0 => \A a \in 1..Len(acts) : Contract(a)

C5_Witness ==
    /\ pc = 0
    /\ Len(acts) = 2
    /\ acts[1].app = acts[2].app
    /\ Contract(1) /\ Contract(2)

C7_WindowTitleLiteral ==
    \A a \in Returned : \A w \in WindowsOf(a) : windows[w].title = "FruitNinja"

C7_Witness ==
    /\ APPLICATION_NAME # "FruitNinja"
    /\ \E a \in Returned : \E w \in WindowsOf(a) :
          windows[w].title = "FruitNinja"

\* C8: a window is never visible without its default size being 1280 x 720,
\* so the size is set before the window is shown.
C8_DefaultSizeBeforeShown ==
    \A w \in 1..Len(windows) :
        windows[w].visible => windows[w].width = 1280 /\ windows[w].height = 720

C8_Witness ==
    \E w \in 1..Len(windows) :
        windows[w].visible /\ windows[w].width = 1280 /\ windows[w].height = 720

\* C9: every instance my_application_new returned has the application id
\* APPLICATION_ID and the flag set G_APPLICATION_HANDLES_OPEN, also after
\* activations.
C9_ApplicationConfigured ==
    \A i \in 1..Len(apps) :
        /\ apps[i].id = APPLICATION_ID
        /\ apps[i].flags = G_APPLICATION_HANDLES_OPEN

C9_Witness ==
    /\ Len(apps) = 2
    /\ Returned # {}

\* C10: within an activation, the window exists before the header bar; the
\* header bar is visible, titled and has its buttons enabled when it is
\* installed as titlebar; titlebar, title and default size are set when the
\* window is shown; and the descriptor is acquired only once the window is
\* shown.
C10_StepsInOrder ==
    \A a \in 1..Len(acts) :
        /\ HeadersOf(a) # {} => WindowsOf(a) # {}
        /\ \A w \in WindowsOf(a) :
              /\ windows[w].titlebar # 0 =>
                    /\ headers[windows[w].titlebar].visible
                    /\ headers[windows[w].titlebar].title # NoTitle
                    /\ headers[windows[w].titlebar].show_title_buttons
              /\ windows[w].visible =>
                    /\ windows[w].titlebar # 0
                    /\ windows[w].title # NoTitle
                    /\ windows[w].width # UnsetSize
                    /\ windows[w].height # UnsetSize
        /\ ProjectsOf(a) # {} =>
              /\ WindowsOf(a) # {}
              /\ \A w \in WindowsOf(a) : windows[w].visible

C10_Witness ==
    /\ pc # 0
    /\ project # 0
    /\ windows[window].visible
    /\ windows[window].titlebar = header_bar

====
